---- MODULE Spec2Model ----
(***************************************************************************)
(* The pathway ledger of AetherMind: the neural_pathway program and the    *)
(* token program.                                                          *)
(*                                                                         *)
(* The repository's code is two record types with one constructor each     *)
(* (NeuralPathway::new, TokenMetadata::new), an error enumeration, and one *)
(* entrypoint per program (process_instruction).  The state of the model   *)
(* is the collection of records that exist:                                *)
(*   pathways  the NeuralPathway records, in the order they came to exist; *)
(*   tokens    the TokenMetadata records, in the order they came to exist; *)
(*   now       the system clock in seconds (SystemTime::now());            *)
(*   request   the call that was served last;                              *)
(*   result    what that call returned: "Ok" when it returned without an   *)
(*             error, else the name of a NeuralPathwayError variant;       *)
(*   reinforced  a history of the Reinforce requests served, kept by the   *)
(*             specification SpecSerial only: for each pathway, the record  *)
(*             as it came to exist and the outcomes requested for it since. *)
(* A record comes to exist when a constructor builds it, or when account   *)
(* data holding it is handed to the program (the Borsh derive).  The two   *)
(* entrypoints receive every kind of request as instruction data.          *)
(***************************************************************************)
EXTENDS Integers, Sequences, FiniteSets

VARIABLES pathways, tokens, now, request, result, reinforced

vars == <<pathways, tokens, now, request, result, reinforced>>

(***************************************************************************)
(* Bounds of the model.                                                    *)
(***************************************************************************)
\* The number of records (pathways and tokens together) a run brings to exist.
MaxRecords == 2
\* The last second of the clock.
MaxTime == 1
\* The number of Reinforce requests whose history is kept for one pathway.
MaxReinforces == 2

(***************************************************************************)
(* Input domains.                                                          *)
(***************************************************************************)
\* Pubkeys of agents.
Agents == {1, 2}
\* A pathway's identity key, derived from (source_agent, target_agent).
PathwayIds == Agents \X Agents
\* What Issue is offered besides the pathway: <<mint, owner, uri>>.
Issuances == {<<"m1", 1, "uri-a">>, <<"m2", 2, "uri-b">>}
Mints == {i[1] : i \in Issuances}
Outcomes == {"Success", "Failure"}
\* <<strength, success_count, failure_count>> of the pathway records found in
\* account data: values of the declared field types (u8, u64, u64).
StoredLevels == {<<7, 6, 0>>, <<255, 254, 0>>}

Min(x, y) == IF x <= y THEN x ELSE y
Max(x, y) == IF x >= y THEN x ELSE y

(***************************************************************************)
(* error.rs: the error taxonomy.                                           *)
(***************************************************************************)
NeuralPathwayError ==
    {"InvalidInstruction", "NotRentExempt", "InvalidAgent", "PathwayAlreadyExists"}

(***************************************************************************)
(* state.rs: the records and their constructors.                           *)
(***************************************************************************)
\* A NeuralPathway::new that starts a pathway at strength 0.
NeuralPathwayNewZeroStrength(source_agent, target_agent, t) ==
    [source_agent  |-> source_agent,
     target_agent  |-> target_agent,
     strength      |-> 0,
     created_at    |-> t,
     last_used     |-> t,
     success_count |-> 0,
     failure_count |-> 0]

\* NeuralPathway::new(source_agent, target_agent), called at time t.
NeuralPathwayNew(source_agent, target_agent, t) ==
    [source_agent  |-> source_agent,
     target_agent  |-> target_agent,
     strength      |-> 1,
     created_at    |-> t,
     last_used     |-> t,
     success_count |-> 0,
     failure_count |-> 0]

\* TokenMetadata::new(pathway_id, mint, owner, uri), called at time t.
TokenMetadataNew(pathway_id, mint, owner, uri, t) ==
    [pathway_id |-> pathway_id,
     mint       |-> mint,
     owner      |-> owner,
     created_at |-> t,
     strength   |-> 1,
     uri        |-> uri]

\* The identity key of a pathway record.
KeyOf(p) == <<p.source_agent, p.target_agent>>

\* The positions of the pathways stored under a key, and of the tokens of a mint.
PathwaysAt(store, key) == {i \in 1..Len(store) : KeyOf(store[i]) = key}
TokensOf(registry, mint) == {i \in 1..Len(registry) : registry[i].mint = mint}

Records == Len(pathways) + Len(tokens)

(***************************************************************************)
(* Requests (section 6 of the specification: the logical operations).      *)
(***************************************************************************)
NoRequest == [op |-> "None"]
CreateRequest(a, b, e) ==
    [op |-> "Create", source_agent |-> a, target_agent |-> b, storage_eligible |-> e]
\* The arguments of NeuralPathway::new: a Create without the eligibility flag.
NewPathwayRequest(a, b) ==
    [op |-> "Create", source_agent |-> a, target_agent |-> b]
ReinforceRequest(key, outcome) ==
    [op |-> "Reinforce", identity_key |-> key, outcome |-> outcome]
IssueRequest(pid, mint, owner, uri) ==
    [op |-> "Issue", pathway_id |-> pid, mint |-> mint, owner |-> owner, uri |-> uri]
\* Instruction data that encodes no request: empty, or an unknown opcode.
MalformedRequest(kind) == [op |-> "Malformed", kind |-> kind]

\* What a caller can send to the neural_pathway entrypoint.
NeuralPathwayInstructions ==
    {CreateRequest(k[1], k[2], e) : k \in PathwayIds, e \in BOOLEAN}
    \cup {ReinforceRequest(k, o) : k \in PathwayIds, o \in Outcomes}
    \cup {MalformedRequest(m) : m \in {"Empty", "UnknownOpcode"}}

\* What a caller can send to the token entrypoint.
TokenInstructions ==
    {IssueRequest(k, i[1], i[2], i[3]) : k \in PathwayIds, i \in Issuances}
    \cup {MalformedRequest(m) : m \in {"Empty", "UnknownOpcode"}}

\* The call served last: how it reached the code ("constructor": the record
\* constructor was called; "entrypoint": process_instruction was called;
\* "account": account data was decoded), the program, and the request.
Call(via, program, req) == [via |-> via, program |-> program, req |-> req]

(***************************************************************************)
(* Initial state: no record exists, nothing was requested.                 *)
(***************************************************************************)
Init ==
    /\ pathways = <<>>
    /\ tokens = <<>>
    /\ now = 0
    /\ request = Call("none", "none", NoRequest)
    /\ result = "None"
    /\ reinforced = <<>>

(***************************************************************************)
(* Actions.                                                                *)
(***************************************************************************)
\* The clock advances.
Tick ==
    /\ now < MaxTime
    /\ now' = now + 1
    /\ UNCHANGED <<pathways, tokens, request, result>>

\* Create, as far as the code implements it: NeuralPathway::new builds the
\* record.  The constructor takes the two agents only (a request's
\* storage_eligible has no place in it), checks nothing and cannot fail.
Create(a, b) ==
    /\ Records < MaxRecords
    /\ pathways' = Append(pathways, NeuralPathwayNew(a, b, now))
    /\ request' = Call("constructor", "neural_pathway", NewPathwayRequest(a, b))
    /\ result' = "Ok"
    /\ UNCHANGED <<tokens, now>>

\* Issue, as far as the code implements it: TokenMetadata::new builds the
\* record.  The constructor reads no pathway, checks nothing and cannot fail.
Issue(pid, mint, owner, uri) ==
    /\ Records < MaxRecords
    /\ tokens' = Append(tokens, TokenMetadataNew(pid, mint, owner, uri, now))
    /\ request' = Call("constructor", "token", IssueRequest(pid, mint, owner, uri))
    /\ result' = "Ok"
    /\ UNCHANGED <<pathways, now>>

\* Account data holding a pathway record is handed to the program and decoded
\* (#[derive(BorshDeserialize)]).  The records offered are valid ones of the
\* data model: distinct agents, a key not stored yet, created and last used
\* at second 0.
LoadPathway(a, b, level) ==
    /\ Records < MaxRecords
    /\ a # b
    /\ PathwaysAt(pathways, <<a, b>>) = {}
    /\ pathways' = Append(pathways,
                      [source_agent  |-> a,
                       target_agent  |-> b,
                       strength      |-> level[1],
                       created_at    |-> 0,
                       last_used     |-> 0,
                       success_count |-> level[2],
                       failure_count |-> level[3]])
    /\ request' = Call("account", "neural_pathway", NoRequest)
    /\ result' = "Ok"
    /\ UNCHANGED <<tokens, now>>

\* The strength of the pathway a token refers to (its own when there is none).
LiveStrength(t) ==
    IF PathwaysAt(pathways, t.pathway_id) = {}
    THEN t.strength
    ELSE pathways[CHOOSE i \in PathwaysAt(pathways, t.pathway_id) : TRUE].strength

\* A neural_pathway::process_instruction that, on Reinforce, copies the
\* pathway's strength into the tokens that refer to it.
NeuralPathwayProcessInstructionSyncsTokens(instruction_data) ==
    /\ request' = Call("entrypoint", "neural_pathway", instruction_data)
    /\ result' = "Ok"
    /\ tokens' = IF instruction_data.op = "Reinforce"
                 THEN [i \in 1..Len(tokens) |->
                        IF tokens[i].pathway_id = instruction_data.identity_key
                        THEN [tokens[i] EXCEPT !.strength = LiveStrength(tokens[i])]
                        ELSE tokens[i]]
                 ELSE tokens
    /\ UNCHANGED <<pathways, now>>

\* neural_pathway::process_instruction: logs the instruction data, returns Ok.
NeuralPathwayProcessInstruction(instruction_data) ==
    /\ request' = Call("entrypoint", "neural_pathway", instruction_data)
    /\ result' = "Ok"
    /\ UNCHANGED <<pathways, tokens, now>>

\* A token::process_instruction that answers instruction data it cannot decode
\* with InvalidInstruction.
TokenProcessInstructionRejectsMalformed(instruction_data) ==
    /\ request' = Call("entrypoint", "token", instruction_data)
    /\ result' = IF instruction_data.op = "Malformed"
                 THEN "InvalidInstruction"
                 ELSE "Ok"
    /\ UNCHANGED <<pathways, tokens, now>>

\* token::process_instruction: logs the instruction data, returns Ok.
TokenProcessInstruction(instruction_data) ==
    /\ request' = Call("entrypoint", "token", instruction_data)
    /\ result' = "Ok"
    /\ UNCHANGED <<pathways, tokens, now>>

Next ==
    \/ Tick /\ UNCHANGED reinforced
    \/ \E a \in Agents, b \in Agents : Create(a, b) /\ UNCHANGED reinforced
    \/ \E k \in PathwayIds, i \in Issuances :
          Issue(k, i[1], i[2], i[3]) /\ UNCHANGED reinforced
    \/ \E a \in Agents, b \in Agents, l \in StoredLevels :
          LoadPathway(a, b, l) /\ UNCHANGED reinforced
    \/ \E d \in NeuralPathwayInstructions :
          NeuralPathwayProcessInstruction(d) /\ UNCHANGED reinforced
    \/ \E d \in TokenInstructions :
          TokenProcessInstruction(d) /\ UNCHANGED reinforced

Spec == Init /\ [][Next]_vars

(***************************************************************************)
(* The same program, with the history of the Reinforce requests kept.      *)
(* process_instruction runs a request from its first statement to its      *)
(* return and shares nothing with another run of itself, so that requests  *)
(* sent together are served as whole steps, in some order: a behaviour of  *)
(* SpecSerial is one such order.                                           *)
(***************************************************************************)
\* A pathway came to exist: its history starts from the record as it is.
PathwayArrived ==
    reinforced' = Append(reinforced,
                         [base |-> pathways'[Len(pathways')], outcomes |-> <<>>])

\* A Reinforce request for the pathways of identity_key was served.
ReinforceServed(identity_key, outcome) ==
    reinforced' = [i \in 1..Len(reinforced) |->
                     IF KeyOf(reinforced[i].base) = identity_key
                     THEN [reinforced[i] EXCEPT !.outcomes = Append(@, outcome)]
                     ELSE reinforced[i]]

\* The history of the pathways of identity_key has room for one more request.
HistoryHasRoom(identity_key) ==
    \A i \in 1..Len(reinforced) :
        KeyOf(reinforced[i].base) = identity_key
        => Len(reinforced[i].outcomes) < MaxReinforces

NextSerial ==
    \/ Tick /\ UNCHANGED reinforced
    \/ \E a \in Agents, b \in Agents : Create(a, b) /\ PathwayArrived
    \/ \E k \in PathwayIds, i \in Issuances :
          Issue(k, i[1], i[2], i[3]) /\ UNCHANGED reinforced
    \/ \E a \in Agents, b \in Agents, l \in StoredLevels :
          LoadPathway(a, b, l) /\ PathwayArrived
    \/ \E d \in NeuralPathwayInstructions :
          /\ NeuralPathwayProcessInstruction(d)
          /\ IF d.op = "Reinforce"
             THEN /\ HistoryHasRoom(d.identity_key)
                  /\ ReinforceServed(d.identity_key, d.outcome)
             ELSE UNCHANGED reinforced
    \/ \E d \in TokenInstructions :
          TokenProcessInstruction(d) /\ UNCHANGED reinforced

SpecSerial == Init /\ [][NextSerial]_vars

(***************************************************************************)
(* Properties.                                                             *)
(***************************************************************************)
\* The step just taken served the call c.  Every call sets request; only the
\* clock's tick leaves it as it was.
Served(c) == request' = c /\ now' = now

CreateCall(a, b) == Call("constructor", "neural_pathway", NewPathwayRequest(a, b))
IssueCall(k, i) == Call("constructor", "token", IssueRequest(k, i[1], i[2], i[3]))
ReinforceCall(k, o) == Call("entrypoint", "neural_pathway", ReinforceRequest(k, o))

\* C1: the Pathway Store holds at most one pathway per (source_agent,
\* target_agent) key with distinct agents: a Create for a key that is stored
\* already is refused with PathwayAlreadyExists and adds nothing.
C1_OnePathwayPerKey ==
    \A k \in PathwayIds :
        k[1] # k[2] => Cardinality(PathwaysAt(pathways, k)) <= 1

\* C2: Create(a, a) returns InvalidAgent and creates no record, so no pathway
\* record has source_agent = target_agent.
C2_NoSelfPathway ==
    /\ \A i \in 1..Len(pathways) : pathways[i].source_agent # pathways[i].target_agent
    /\ (request.req.op = "Create" /\ request.req.source_agent = request.req.target_agent)
          => result = "InvalidAgent"

\* C3: Reinforce(Success) on an existing pathway of strength s sets the
\* strength to min(255, s + 1) and adds exactly 1 to success_count.
C3_ReinforceSuccessSaturates ==
    [][\A k \in PathwayIds :
         (k[1] # k[2] /\ Served(ReinforceCall(k, "Success")))
         => \A i \in PathwaysAt(pathways, k) :
               /\ i <= Len(pathways')
               /\ pathways'[i].strength = Min(255, pathways[i].strength + 1)
               /\ pathways'[i].success_count = pathways[i].success_count + 1]_vars

\* C4: Reinforce(Failure) on an existing pathway of strength s sets the
\* strength to max(0, s - 1) and adds exactly 1 to failure_count.
C4_ReinforceFailureFloors ==
    [][\A k \in PathwayIds :
         (k[1] # k[2] /\ Served(ReinforceCall(k, "Failure")))
         => \A i \in PathwaysAt(pathways, k) :
               /\ i <= Len(pathways')
               /\ pathways'[i].strength = Max(0, pathways[i].strength - 1)
               /\ pathways'[i].failure_count = pathways[i].failure_count + 1]_vars

\* C5: an Issue for an existing pathway and a new mint adds a token whose
\* strength is the pathway's strength at that moment and whose created_at is
\* the time of the issuance.
C5_IssueSnapshotsStrength ==
    [][\A k \in PathwayIds, i \in Issuances :
         (/\ Served(IssueCall(k, i))
          /\ k[1] # k[2]
          /\ PathwaysAt(pathways, k) # {}
          /\ TokensOf(tokens, i[1]) = {})
         => /\ Len(tokens') = Len(tokens) + 1
            /\ tokens'[Len(tokens')].created_at = now
            /\ \A p \in PathwaysAt(pathways, k) :
                  tokens'[Len(tokens')].strength = pathways[p].strength]_vars

\* C6: once a token record is issued, no later step changes any of its fields;
\* a Reinforce sent for the pathway it refers to leaves it as it was.
C6_IssuedTokenIsImmutable ==
    [][\A i \in 1..Len(tokens) : i <= Len(tokens') /\ tokens'[i] = tokens[i]]_vars

\* C6, its case: a token exists, its pathway exists, and the call served last
\* is a Reinforce for that pathway.
C6_Witness ==
    /\ Len(tokens) >= 1
    /\ PathwaysAt(pathways, tokens[1].pathway_id) # {}
    /\ \E o \in Outcomes : request = ReinforceCall(tokens[1].pathway_id, o)

\* C7: an Issue whose pathway_id names no stored pathway is refused with the
\* unknown-pathway error (InvalidAgent).
C7_UnknownPathwayRejected ==
    (/\ request.req.op = "Issue"
     /\ request.req.pathway_id[1] # request.req.pathway_id[2]
     /\ PathwaysAt(pathways, request.req.pathway_id) = {})
        => result = "InvalidAgent"

\* C8: the Token Registry holds at most one record per mint.
C8_OneTokenPerMint ==
    \A m \in Mints : Cardinality(TokensOf(tokens, m)) <= 1

\* C9: malformed or unrecognized instruction data (empty data included) is
\* answered with InvalidInstruction, never with success.
C9_MalformedRejected ==
    request.req.op = "Malformed" => result = "InvalidInstruction"

C11_IneligibleCreateRejected ==
    (/\ request.via = "entrypoint"
     /\ request.req.op = "Create"
     /\ request.req.source_agent # request.req.target_agent
     /\ ~request.req.storage_eligible
     /\ PathwaysAt(pathways, <<request.req.source_agent,
                               request.req.target_agent>>) = {})
        => result = "NotRentExempt"

\* C12: every pathway has last_used >= created_at; a Reinforce served for a
\* stored pathway sets its last_used to the current time; no step changes the
\* created_at of a stored pathway.
C12_LastUsedFollowsReinforce ==
    [][/\ \A i \in 1..Len(pathways') :
            pathways'[i].last_used >= pathways'[i].created_at
       /\ \A i \in 1..Len(pathways) :
            /\ i <= Len(pathways')
            /\ pathways'[i].created_at = pathways[i].created_at
       /\ \A k \in PathwayIds, o \in Outcomes :
            (k[1] # k[2] /\ Served(ReinforceCall(k, o)))
            => \A i \in PathwaysAt(pathways, k) :
                  /\ i <= Len(pathways')
                  /\ pathways'[i].last_used = now
                  /\ pathways'[i].last_used >= pathways[i].last_used]_vars

\* C15: a Reinforce for a key under which no pathway is stored is answered
\* with the not-found error (InvalidAgent).
C15_ReinforceUnknownRejected ==
    (/\ request.via = "entrypoint"
     /\ request.req.op = "Reinforce"
     /\ PathwaysAt(pathways, request.req.identity_key) = {})
        => result = "InvalidAgent"

\* C16: a Reinforce served for a stored pathway raises exactly one of the two
\* counters, by exactly 1 (success_count on Success, failure_count on
\* Failure), and leaves the other counter, both agents and created_at alone.
C16_ReinforceCountsOnce ==
    [][\A k \in PathwayIds, o \in Outcomes :
         (k[1] # k[2] /\ Served(ReinforceCall(k, o)))
         => \A i \in PathwaysAt(pathways, k) :
               /\ i <= Len(pathways')
               /\ KeyOf(pathways'[i]) = KeyOf(pathways[i])
               /\ pathways'[i].created_at = pathways[i].created_at
               /\ pathways'[i].success_count + pathways'[i].failure_count
                     = pathways[i].success_count + pathways[i].failure_count + 1
               /\ pathways'[i].success_count >= pathways[i].success_count
               /\ pathways'[i].failure_count >= pathways[i].failure_count]_vars

\* C17: every token's pathway_id names a pathway that is stored; a stored
\* pathway is never removed and keeps its key.
C17_TokensReferToPathways ==
    \A i \in 1..Len(tokens) : PathwaysAt(pathways, tokens[i].pathway_id) # {}

\* C18: as implemented, process_instruction of either program returns Ok for
\* every instruction and writes nothing: a step that serves an entrypoint
\* call leaves every pathway and token record as it was.
C18_EntrypointsReturnOkAndWriteNothing ==
    [][(request'.via = "entrypoint" /\ now' = now)
       => /\ result' = "Ok"
          /\ pathways' = pathways
          /\ tokens' = tokens]_vars

\* C18, its case: a pathway and a token exist, and the call served last is
\* undecodable instruction data sent to the token entrypoint.
C18_Witness ==
    /\ Len(pathways) = 1
    /\ Len(tokens) = 1
    /\ request.via = "entrypoint"
    /\ request.program = "token"
    /\ request.req.op = "Malformed"
    /\ result = "Ok"

\* C13: an Issue that runs among Reinforce requests for its pathway gives the
\* token the strength the pathway has in a state between two whole Reinforce
\* steps: issued right after a Reinforce was served for the stored pathway,
\* the token carries the pathway's strength as that Reinforce left it.
C13_IssueReadsBetweenReinforces ==
    [][\A k \in PathwayIds, i \in Issuances, o \in Outcomes :
         (/\ request = ReinforceCall(k, o)
          /\ Served(IssueCall(k, i))
          /\ k[1] # k[2]
          /\ PathwaysAt(pathways, k) # {})
         => /\ Len(tokens') = Len(tokens) + 1
            /\ \E p \in PathwaysAt(pathways, k) :
                  tokens'[Len(tokens')].strength
                     \in {pathways[p].strength, pathways'[p].strength}]_vars

\* One saturating step of strength, as a Reinforce request asks for it.
ReinforceStep(strength, outcome) ==
    IF outcome = "Success" THEN Min(255, strength + 1) ELSE Max(0, strength - 1)

RECURSIVE ApplyOutcomes(_, _)
\* The strength after the steps of outcomes, one after the other.
ApplyOutcomes(strength, outcomes) ==
    IF outcomes = <<>> THEN strength
    ELSE ApplyOutcomes(ReinforceStep(strength, Head(outcomes)), Tail(outcomes))

\* The sequential orders of the requests of outcomes.
Orderings(outcomes) ==
    LET n == Len(outcomes)
    IN  {[i \in 1..n |-> outcomes[f[i]]] :
            f \in {g \in [1..n -> 1..n] :
                     \A x \in 1..n, y \in 1..n : x # y => g[x] # g[y]}}

\* How many of outcomes are o.
CountOf(outcomes, o) == Cardinality({i \in 1..Len(outcomes) : outcomes[i] = o})

\* C14: requests on one pathway are serialized with no lost update: once the
\* Reinforce requests sent for an existing pathway have all been served, its
\* success_count has grown by the number of Success outcomes, its
\* failure_count by the number of Failure outcomes, and its strength is what
\* the saturating steps give when applied in some sequential order.
C14_ReinforcesSerialized ==
    \A i \in 1..Len(reinforced) :
        LET h == reinforced[i]
        IN  (h.base.source_agent # h.base.target_agent /\ Len(h.outcomes) >= 1)
            => /\ i <= Len(pathways)
               /\ pathways[i].success_count
                     = h.base.success_count + CountOf(h.outcomes, "Success")
               /\ pathways[i].failure_count
                     = h.base.failure_count + CountOf(h.outcomes, "Failure")
               /\ \E order \in Orderings(h.outcomes) :
                     pathways[i].strength = ApplyOutcomes(h.base.strength, order)

====
